---- MODULE Spec2Model ----
(***************************************************************************)
(* Templar's tiered streaming object store: the per-key lock wrapper       *)
(* (SyncClient), the LRU eviction policy, the tiered cache client          *)
(* (CacheClient) over a local-filesystem cache backend and a remote        *)
(* primary backend, and the push/pull pipelines with the job queue.        *)
(***************************************************************************)
EXTENDS Integers, Sequences, FiniteSets, TLC

(***************************************************************************)
(* Bounds of the model.                                                    *)
(***************************************************************************)
NProcs == 2        \* concurrent callers of the object store
NKeys == 2         \* distinct object keys
MaxLen == 2        \* longest object, in bytes
MaxOps == 3        \* operations started in one behaviour
MaxFaults == 1     \* backend I/O failures injected in one behaviour
MaxInodes == 4     \* inodes of the cache directory
MaxPushes == 3     \* Push calls made in one behaviour, at most
JobBuffer == 2     \* config.App.JobBuffer, the capacity of the job queue
MaxTicks == 2      \* ticks of the progress reporters in one behaviour
LruKeys == 3       \* keys in the behaviours of the eviction policy alone
MaxCalls == 4      \* calls of the eviction policy in one behaviour

Procs == 1..NProcs
Keys == 1..NKeys
Inodes == 1..MaxInodes

\* The object with tag t: t bytes, each of value t.  Two different objects
\* differ in length and in every byte, so a mixture or a truncation of them is
\* none of them.
Content(t) == [i \in 1..t |-> t]
Contents == {Content(t) : t \in 1..MaxLen}

\* A stored object, or its absence.
Obj(d) == [ok |-> TRUE, data |-> d]
NoObj == [ok |-> FALSE, data |-> <<>>]

VARIABLES
    cfg,        \* configuration: [sync, maxSizeBytes, track, jobBuffer, pushes]
    primary,    \* primary backend: key -> stored object
    fsDir,      \* cache backend directory: key -> [dst, tmp] inode (0: no entry)
    fsData,     \* cache backend inodes: inode -> bytes
    lru,        \* LRUEvictionPolicy: [items, order, currentSize]
    rw,         \* SyncClient.locks: key -> [readers, writer, waiting]
    op,         \* per caller: the object-store operation in progress
    ctask,      \* per caller: the cache-writer task it spawned
    pipe,       \* per caller: state of the io.Pipe writer end
    wsr,        \* history: key -> cache Upload completed since its last LRU removal
    hist,       \* history: operations started, and per key what was done to it
    faults,     \* history: failures injected
    svc         \* Service: [versions, jobs, queue, running, pushes]

vars == <<cfg, primary, fsDir, fsData, lru, rw, op, ctask, pipe, wsr, hist, faults, svc>>

(***************************************************************************)
(* LRUEvictionPolicy (front of order = most recently used).                *)
(***************************************************************************)
Entry(k, s) == [key |-> k, size |-> s]

LRUEmpty == [items |-> {}, order |-> <<>>, currentSize |-> 0]

RECURSIVE SumSizes(_)
SumSizes(ord) == IF ord = <<>> THEN 0 ELSE Head(ord).size + SumSizes(Tail(ord))

OrderKeys(ord) == {ord[i].key : i \in 1..Len(ord)}

SizeOf(l, k) ==
    LET i == CHOOSE j \in 1..Len(l.order) : l.order[j].key = k IN l.order[i].size

\* A plausible slip: the entry is put in front without being unlinked.
MoveToFrontDup(ord, k) ==
    LET IsK(e) == e.key = k IN SelectSeq(ord, IsK) \o ord

\* list.MoveToFront
MoveToFront(ord, k) ==
    LET IsK(e) == e.key = k
        NotK(e) == e.key # k
    IN SelectSeq(ord, IsK) \o SelectSeq(ord, NotK)

\* Access
LRUAccess(l, k) ==
    IF k \in l.items THEN [l EXCEPT !.order = MoveToFront(l.order, k)] ELSE l

\* the loop of evictIfNeeded
RECURSIVE EvictLoop(_, _, _)
EvictLoop(l, max, ev) ==
    IF l.currentSize > max /\ Len(l.order) > 0
    THEN LET back == l.order[Len(l.order)] IN
         EvictLoop([items |-> l.items \ {back.key},
                    order |-> SubSeq(l.order, 1, Len(l.order) - 1),
                    currentSize |-> l.currentSize - back.size],
                   max, Append(ev, back.key))
    ELSE [lru |-> l, evicted |-> ev]

\* A plausible slip: evict at most one entry per insertion.
EvictOne(l, max) ==
    IF max > 0 /\ l.currentSize > max /\ Len(l.order) > 0
    THEN LET back == l.order[Len(l.order)] IN
         [lru |-> [items |-> l.items \ {back.key},
                   order |-> SubSeq(l.order, 1, Len(l.order) - 1),
                   currentSize |-> l.currentSize - back.size],
          evicted |-> <<back.key>>]
    ELSE [lru |-> l, evicted |-> <<>>]

\* A plausible slip: the limit is applied also when it is zero or negative.
evictAlways(l, max) == EvictLoop(l, max, <<>>)

evictIfNeeded(l, max) ==
    IF max <= 0 THEN [lru |-> l, evicted |-> <<>>] ELSE EvictLoop(l, max, <<>>)

\* A plausible slip: a new entry is put at the least-recently-used end.
LRUAddAtBack(l, max, k, s) ==
    IF k \in l.items
    THEN [lru |-> [l EXCEPT !.order = MoveToFront(l.order, k)], evicted |-> <<>>]
    ELSE evictIfNeeded([items |-> l.items \cup {k},
                        order |-> Append(l.order, Entry(k, s)),
                        currentSize |-> l.currentSize + s], max)

\* A plausible slip: Add of a tracked key records the new size.
LRUAddRemeasure(l, max, k, s) ==
    LET NotK(e) == e.key # k
        rest == SelectSeq(l.order, NotK)
    IN evictIfNeeded([items |-> l.items \cup {k},
                      order |-> <<Entry(k, s)>> \o rest,
                      currentSize |-> SumSizes(rest) + s], max)

\* Add: returns the new policy state and the keys to evict from the cache backend
LRUAdd(l, max, k, s) ==
    IF k \in l.items
    THEN [lru |-> [l EXCEPT !.order = MoveToFront(l.order, k)], evicted |-> <<>>]
    ELSE evictIfNeeded([items |-> l.items \cup {k},
                        order |-> <<Entry(k, s)>> \o l.order,
                        currentSize |-> l.currentSize + s], max)

\* A plausible slip: Remove forgets to subtract the entry's size.
LRURemoveNoSub(l, k) ==
    IF k \notin l.items THEN l
    ELSE LET NotK(e) == e.key # k IN
         [items |-> l.items \ {k},
          order |-> SelectSeq(l.order, NotK),
          currentSize |-> l.currentSize]

\* Remove
LRURemove(l, k) ==
    IF k \notin l.items THEN l
    ELSE LET NotK(e) == e.key # k IN
         [items |-> l.items \ {k},
          order |-> SelectSeq(l.order, NotK),
          currentSize |-> l.currentSize - SizeOf(l, k)]

(***************************************************************************)
(* Records of the callers and of the cache-writer tasks.                   *)
(***************************************************************************)
\* history: the caller's previous operation (kept when cfg.prev is set)
NoPrev == [kind |-> "none", key |-> 0, res |-> "none"]

IdleOp ==
    [kind |-> "idle", pc |-> "idle", key |-> 0, src |-> <<>>, pbuf |-> <<>>,
     rsrc |-> "none", rfd |-> 0, snap |-> <<>>, roff |-> 0, got |-> <<>>,
     eof |-> FALSE, res |-> "none", touched |-> FALSE, perr |-> FALSE,
     closes |-> 0, cerr |-> FALSE, popen |-> FALSE, prev |-> NoPrev,
     want |-> [valid |-> FALSE, data |-> <<>>, n |-> 0]]

IdleTask ==
    [pc |-> "idle", key |-> 0, fd |-> 0, size |-> 0, evict |-> <<>>,
     err |-> FALSE, added |-> FALSE, committed |-> FALSE, touched |-> FALSE]

NewTask(k) == [IdleTask EXCEPT !.pc = "create", !.key = k]

NoEntry == [dst |-> 0, tmp |-> 0]

Faulty == IF faults < MaxFaults THEN {FALSE, TRUE} ELSE {FALSE}
Bump(f) == faults' = faults + (IF f THEN 1 ELSE 0)

(***************************************************************************)
(* The local filesystem under the cache backend's root.                    *)
(***************************************************************************)
RefInodes(dir, o, t) ==
    ({dir[k].dst : k \in Keys} \cup {dir[k].tmp : k \in Keys}
       \cup {o[p].rfd : p \in Procs} \cup {t[p].fd : p \in Procs}) \ {0}

\* An inode with no directory entry and no open descriptor is gone.
GC(data, dir, o, t) ==
    [i \in Inodes |-> IF i \in RefInodes(dir, o, t) THEN data[i] ELSE <<>>]

FreeInodes == Inodes \ RefInodes(fsDir, op, ctask)
NewInode == CHOOSE i \in FreeInodes : \A j \in FreeInodes : i <= j

\* write(2) of one byte at an offset; a gap left by a truncation reads as zeros
WriteAt(d, off, b) ==
    IF off < Len(d) THEN [d EXCEPT ![off + 1] = b]
    ELSE d \o [i \in 1..(off - Len(d)) |-> 0] \o <<b>>

SetFS(dir, data, o, t) ==
    /\ fsDir' = dir
    /\ op' = o
    /\ ctask' = t
    /\ fsData' = GC(data, dir, o, t)

\* local.Upload gave up: close the file, os.Remove(tmpPath), return the error.
\* cacheUpload returns it without calling Add and the task drains the pipe.
TaskFailed(t) == [t EXCEPT !.pc = "drain", !.err = TRUE, !.fd = 0]
DropTmp(dir, k) == [dir EXCEPT ![k].tmp = 0]

(***************************************************************************)
(* SyncClient: per-key sync.RWMutex.                                       *)
(***************************************************************************)
FreeLock == [readers |-> 0, wmutex |-> FALSE, writer |-> FALSE]

\* A plausible slip: the write lock does not wait for the readers to leave.
CanLockNoWait(l) == TRUE

\* RWMutex.Lock, after it took the writers' mutex: wait for the active readers
CanLock(l) == l.readers = 0

\* RWMutex.RLock: blocked while a writer holds or has announced the lock
CanRLock(l) == ~l.wmutex

\* A plausible slip: one lock for all keys.
getLockShared(k) == 1

\* getLock: one lock per key, created on first use and then reused
getLock(k) == k

\* A plausible slip: Unlock lets the readers in but not the next writer.
UnlockKeepsMutex(l) == [l EXCEPT !.writer = FALSE]

\* RWMutex.Unlock
Unlock(l) == [l EXCEPT !.writer = FALSE, !.wmutex = FALSE]
RUnlock(l) == [l EXCEPT !.readers = l.readers - 1]

\* A plausible slip: Download returns the backend's error with the lock held.
ReleaseOnErrorKeeps(l) == l

\* SyncClient.Download, the backend's Download failed: lock.RUnlock()
ReleaseOnError(l) == RUnlock(l)

\* where an operation enters the wrapped client
InnerPc(kind) ==
    CASE kind = "Upload" -> "p_copy"
      [] kind = "Download" -> "d_cache"
      [] kind = "Delete" -> "del_cache"

\* SyncClient takes the key's lock first
FirstPc(kind) ==
    IF cfg.sync THEN (IF kind = "Download" THEN "lock_r" ELSE "lock_w")
    ELSE InnerPc(kind)

(***************************************************************************)
(* History kept per key for the statements below: the kinds of operations  *)
(* started on it, how many, whether one is in flight, whether all so far   *)
(* were Uploads that ran one after the other and succeeded, and the        *)
(* contents of the Uploads that returned success, in the order of return.  *)
(***************************************************************************)
NoHistory == [n |-> 0, kinds |-> {}, busy |-> 0, clean |-> TRUE, okups |-> <<>>]

Started(h, kind) ==
    [h EXCEPT !.n = @ + 1, !.kinds = @ \cup {kind}, !.busy = @ + 1,
              !.clean = @ /\ (kind = "Download" \/ (kind = "Upload" /\ h.busy = 0))]

Returned(h, kind, c, res) ==
    [h EXCEPT !.busy = @ - 1,
              !.clean = @ /\ res = "ok",
              !.okups = IF kind = "Upload" /\ res = "ok" THEN Append(@, c) ELSE @]

\* What a Download starting now is to yield, when the key has seen nothing but
\* two or more successful Uploads, one after the other, and none is in flight.
Expect(h) ==
    [valid |-> h.clean /\ h.busy = 0 /\ Len(h.okups) >= 2 /\ h.kinds = {"Upload"},
     data |-> IF h.okups = <<>> THEN <<>> ELSE h.okups[Len(h.okups)],
     n |-> h.n + 1]

Done(p, res) ==
    hist' = IF cfg.track
            THEN [hist EXCEPT !.key[op[p].key] = Returned(@, op[p].kind, op[p].src, res)]
            ELSE hist

(***************************************************************************)
(* The Service: the template_versions and jobs tables, the job queue and   *)
(* its one worker.                                                         *)
(***************************************************************************)
HashMul == 31
HashMod == 251

\* The digest the hasher holds after the bytes of b went through it.
RECURSIVE Hash(_)
Hash(b) ==
    IF b = <<>> THEN 1
    ELSE (Hash(SubSeq(b, 1, Len(b) - 1)) * HashMul + b[Len(b)]) % HashMod

\* A template_versions row; file is the byte stream of the push that made it.
NoVersion == [ok |-> FALSE, hash |-> 0, size |-> 0, file |-> <<>>]

\* The files a Push can carry: the objects and the empty file.
Files == Contents \cup {<<>>}

\* A plausible slip: the task is sent to the queue before the transaction
\* that holds the job row is committed.
NewJobUncommitted(k, c) ==
    [key |-> k, file |-> c, nofile |-> FALSE, status |-> "pending", progress |-> 0,
     msg |-> FALSE, visible |-> FALSE, queued |-> FALSE, rep |-> "none", seen |-> 0,
     read |-> 0, outcome |-> "none", uploaded |-> FALSE, ver |-> FALSE]

\* A jobs row as CreateJob writes it and tx.Commit makes it visible: status,
\* progress and error_message (msg: set or not) are its columns.  The rest is
\* the task of the job: its file (nofile: params.File is nil), whether Push
\* has sent it to the queue (queued), its progress reporter (rep: none, on,
\* off; seen: the byte count it last read), the bytes the upload read from
\* the file (read), and what the task did: the terminal status it wrote
\* (outcome), whether Upload returned success (uploaded) and whether it
\* inserted the version row (ver).
NewJob(k, c) ==
    [key |-> k, file |-> c, nofile |-> FALSE, status |-> "pending", progress |-> 0,
     msg |-> FALSE, visible |-> TRUE, queued |-> FALSE, rep |-> "none", seen |-> 0,
     read |-> 0, outcome |-> "none", uploaded |-> FALSE, ver |-> FALSE]

\* versions and jobs are the tables, queue the channel of tasks (job ids),
\* running the task the worker executes (0: none), crashed tells that the
\* process has died.  History: pushes accepted per key, Push calls refused,
\* the last Push call's key and result, the order in which tasks were sent
\* to the queue and in which they started, and the reporters' ticks.
NoService ==
    [versions |-> [k \in Keys |-> NoVersion],
     jobs |-> <<>>,
     queue |-> <<>>,
     running |-> 0,
     handling |-> 0,
     crashed |-> FALSE,
     pushes |-> [k \in Keys |-> 0],
     refused |-> 0,
     last |-> [key |-> 0, res |-> "none"],
     order |-> <<>>,
     started |-> <<>>,
     ticks |-> 0]

\* The goroutine that runs the queued tasks, and the callers of Pull.
Worker == 1
Pullers == Procs \ {Worker}

\* The configurations: the cache client alone with room for two small
\* objects, the same with the per-key history recorded, the same behind
\* SyncClient, and a cache smaller than the largest object.
CacheCfg ==
    [sync |-> FALSE, maxSizeBytes |-> MaxLen, track |-> FALSE, prev |-> FALSE,
     jobBuffer |-> JobBuffer - 1, pushes |-> MaxPushes - 1]
SeqCfg == [CacheCfg EXCEPT !.track = TRUE, !.prev = TRUE]
SyncCfg == [CacheCfg EXCEPT !.sync = TRUE, !.track = TRUE]
TightCfg == [CacheCfg EXCEPT !.maxSizeBytes = MaxLen - 1]
\* the Service with the longer job queue and one more Push
QueueCfg == [CacheCfg EXCEPT !.jobBuffer = JobBuffer, !.pushes = MaxPushes]
\* SyncClient over the cache client, without the per-key history
SharedCfg == [CacheCfg EXCEPT !.sync = TRUE]

InitWith(c) ==
    /\ cfg = c
    /\ primary = [k \in Keys |-> NoObj]
    /\ fsDir = [k \in Keys |-> NoEntry]
    /\ fsData = [i \in Inodes |-> <<>>]
    /\ lru = LRUEmpty
    /\ rw = [k \in Keys |-> FreeLock]
    /\ op = [p \in Procs |-> IdleOp]
    /\ ctask = [p \in Procs |-> IdleTask]
    /\ pipe = [p \in Procs |-> "none"]
    /\ wsr = [k \in Keys |-> FALSE]
    /\ hist = [n |-> 0, key |-> [k \in Keys |-> NoHistory]]
    /\ faults = 0
    /\ svc = NoService

Init == InitWith(CacheCfg)
InitSync == InitWith(SyncCfg)
InitSeq == InitWith(SeqCfg)
InitTight == InitWith(TightCfg)
InitQueue == InitWith(QueueCfg)

\* The object the primary holds under k when the service starts over a
\* primary that is already filled: objects of all lengths up to MaxLen.
StoredAtStart(k) == Obj(Content(((k - 1) % MaxLen) + 1))

\* A start with an empty cache directory and a new LRU over a filled primary.
InitMissWith(c) ==
    /\ cfg = c
    /\ primary = [k \in Keys |-> StoredAtStart(k)]
    /\ fsDir = [k \in Keys |-> NoEntry]
    /\ fsData = [i \in Inodes |-> <<>>]
    /\ lru = LRUEmpty
    /\ rw = [k \in Keys |-> FreeLock]
    /\ op = [p \in Procs |-> IdleOp]
    /\ ctask = [p \in Procs |-> IdleTask]
    /\ pipe = [p \in Procs |-> "none"]
    /\ wsr = [k \in Keys |-> FALSE]
    /\ hist = [n |-> 0, key |-> [k \in Keys |-> NoHistory]]
    /\ faults = 0
    /\ svc = NoService

InitMiss == InitMissWith(CacheCfg)
\* the same behind SyncClient
InitShared == InitMissWith(SharedCfg)

(***************************************************************************)
(* Callers start operations on the object store.                           *)
(***************************************************************************)
\* A caller is free once its last operation has returned and the cache-writer
\* task it left behind has ended.
CanStart(p) ==
    /\ op[p].pc \in {"idle", "done"}
    /\ ctask[p].pc \in {"idle", "done"}
    /\ hist.n < MaxOps

\* CacheClient.Upload starts with io.Pipe, io.TeeReader and the spawn of the
\* cache-writer task
TaskAtEntry(kind, k) == IF kind = "Upload" THEN NewTask(k) ELSE IdleTask
PipeAtEntry(kind) == IF kind = "Upload" THEN "open" ELSE "none"

Begin(p, kind, k, c) ==
    /\ op' = [op EXCEPT ![p] = [IdleOp EXCEPT !.kind = kind, !.key = k,
                                               !.src = c, !.pc = FirstPc(kind),
                                               !.want = Expect(hist.key[k]),
                                               !.prev = IF cfg.prev
                                                        THEN [kind |-> op[p].kind,
                                                              key |-> op[p].key,
                                                              res |-> op[p].res]
                                                        ELSE NoPrev]]
    /\ ctask' = [ctask EXCEPT ![p] = IF cfg.sync THEN IdleTask ELSE TaskAtEntry(kind, k)]
    /\ pipe' = [pipe EXCEPT ![p] = IF cfg.sync THEN "none" ELSE PipeAtEntry(kind)]
    /\ hist' = [n |-> hist.n + 1,
                key |-> IF cfg.track THEN [hist.key EXCEPT ![k] = Started(@, kind)]
                        ELSE hist.key]
    /\ UNCHANGED <<cfg, primary, fsDir, fsData, lru, rw, wsr, faults>>

StartUpload(p) ==
    /\ CanStart(p)
    /\ \E k \in Keys, c \in Contents : Begin(p, "Upload", k, c)
    /\ UNCHANGED svc

StartDownload(p) ==
    /\ CanStart(p)
    /\ \E k \in Keys : Begin(p, "Download", k, <<>>)
    /\ UNCHANGED svc

StartDelete(p) ==
    /\ CanStart(p)
    /\ \E k \in Keys : Begin(p, "Delete", k, <<>>)
    /\ UNCHANGED svc

(***************************************************************************)
(* The cache-writer task: cacheUpload over local.Upload, then Add and the  *)
(* deletes of the evicted keys; on error, drain the pipe.                  *)
(***************************************************************************)
\* os.MkdirAll, os.Create(path + ".tmp"): truncates the temp file if it exists
CreateTmp(p) ==
    /\ ctask[p].pc = "create"
    /\ LET k == ctask[p].key
           old == fsDir[k].tmp
       IN \E f \in Faulty :
            /\ Bump(f)
            /\ IF f
               THEN SetFS(fsDir, fsData, op, [ctask EXCEPT ![p] = TaskFailed(@)])
               ELSE IF old # 0
               THEN SetFS(fsDir, [fsData EXCEPT ![old] = <<>>], op,
                          [ctask EXCEPT ![p].pc = "copy", ![p].fd = old])
               ELSE /\ FreeInodes # {}
                    /\ SetFS([fsDir EXCEPT ![k].tmp = NewInode], fsData, op,
                             [ctask EXCEPT ![p].pc = "copy", ![p].fd = NewInode])
    /\ UNCHANGED <<cfg, primary, lru, rw, pipe, wsr, hist, svc>>

\* io.Copy(f, content) ends: at EOF close the file; on the pipe's error (or a
\* failing close) close it, remove the temp file and return the error
CopyEnd(p) ==
    /\ ctask[p].pc = "copy"
    /\ pipe[p] # "open"
    /\ LET k == ctask[p].key IN
       \E f \in Faulty :
         /\ Bump(f)
         /\ IF pipe[p] = "err" \/ f
            THEN SetFS(DropTmp(fsDir, k), fsData, op, [ctask EXCEPT ![p] = TaskFailed(@)])
            ELSE SetFS(fsDir, fsData, op, [ctask EXCEPT ![p].pc = "remove", ![p].fd = 0])
    /\ UNCHANGED <<cfg, primary, lru, rw, pipe, wsr, hist, svc>>

\* os.Remove(path): the destination goes, if it is there
RemoveDst(p) ==
    /\ ctask[p].pc = "remove"
    /\ LET k == ctask[p].key IN
       \E f \in Faulty :
         /\ Bump(f)
         /\ IF f
            THEN SetFS(DropTmp(fsDir, k), fsData, op, [ctask EXCEPT ![p] = TaskFailed(@)])
            ELSE SetFS([fsDir EXCEPT ![k].dst = 0], fsData, op,
                       [ctask EXCEPT ![p].pc = "rename"])
    /\ UNCHANGED <<cfg, primary, lru, rw, pipe, wsr, hist, svc>>

\* A plausible slip: the rename is taken to have succeeded when the temp file
\* is no longer there.
RenameOkAlways(dir, k) == TRUE

\* os.Rename(tmpPath, path) fails when the temp file is gone
RenameOk(dir, k) == dir[k].tmp # 0

\* os.Rename(tmpPath, path); local.Upload and so cache.Upload return nil
Rename(p) ==
    /\ ctask[p].pc = "rename"
    /\ LET k == ctask[p].key IN
       \E f \in Faulty :
         /\ Bump(f)
         /\ IF f \/ ~RenameOk(fsDir, k)
            THEN /\ SetFS(DropTmp(fsDir, k), fsData, op,
                          [ctask EXCEPT ![p] = TaskFailed(@)])
                 /\ wsr' = wsr
            ELSE /\ SetFS([fsDir EXCEPT ![k] = [dst |-> fsDir[k].tmp, tmp |-> 0]],
                          fsData, op,
                          [ctask EXCEPT ![p].pc = "add", ![p].committed = TRUE])
                 /\ wsr' = [wsr EXCEPT ![k] = TRUE]
    /\ UNCHANGED <<cfg, primary, lru, rw, pipe, hist, svc>>

\* keys := evictionPolicy.Add(key, sizeReader.Size)
Add(p) ==
    /\ ctask[p].pc = "add"
    /\ LET k == ctask[p].key
           r == LRUAdd(lru, cfg.maxSizeBytes, k, ctask[p].size)
       IN /\ lru' = r.lru
          /\ ctask' = [ctask EXCEPT ![p].pc = IF r.evicted = <<>> THEN "done" ELSE "evict",
                                    ![p].evict = r.evicted,
                                    ![p].added = TRUE,
                                    ![p].touched = (r.lru # lru)]
          /\ wsr' = [x \in Keys |->
                       wsr[x] /\ x \notin {r.evicted[i] : i \in 1..Len(r.evicted)}]
    /\ UNCHANGED <<cfg, primary, fsDir, fsData, rw, op, pipe, hist, faults, svc>>

\* c.cache.Delete(ctx, evictKey) for the next evicted key; a failure is logged
Evict(p) ==
    /\ ctask[p].pc = "evict"
    /\ LET ek == Head(ctask[p].evict)
           rest == Tail(ctask[p].evict)
           t == [ctask EXCEPT ![p].evict = rest,
                              ![p].pc = IF rest = <<>> THEN "done" ELSE "evict"]
       IN \E f \in Faulty :
            /\ Bump(f)
            /\ IF f THEN SetFS(fsDir, fsData, op, t)
               ELSE SetFS([fsDir EXCEPT ![ek].dst = 0], fsData, op, t)
    /\ UNCHANGED <<cfg, primary, lru, rw, pipe, wsr, hist, svc>>

\* io.Copy(io.Discard, pr) returns once the writer end is closed
DrainEnd(p) ==
    /\ ctask[p].pc = "drain"
    /\ pipe[p] # "open"
    /\ ctask' = [ctask EXCEPT ![p].pc = "done"]
    /\ UNCHANGED <<cfg, primary, fsDir, fsData, lru, rw, op, pipe, wsr, hist, faults, svc>>

\* A plausible slip: the cache task returns on an error without draining.
PipeReadyNoDrain(p) == ctask[p].pc = "copy"

\* The reader end of the pipe takes a byte only inside io.Copy (of local.Upload
\* or of the drain): until then the tee's write blocks.
PipeReady(p) == ctask[p].pc \in {"copy", "drain"}

\* One byte through the pipe into the task of p: written to the temp file at
\* the descriptor's offset and counted by SizeReader, or (cf) the write fails,
\* or the byte is discarded by the drain.  Yields the new [dir, data, task].
Consume(p, b, cf) ==
    LET t == ctask[p] IN
    IF t.pc = "copy" /\ cf
    THEN [dir |-> DropTmp(fsDir, t.key), data |-> fsData,
          task |-> [TaskFailed(t) EXCEPT !.size = t.size + 1]]
    ELSE IF t.pc = "copy"
    THEN [dir |-> fsDir,
          data |-> [fsData EXCEPT ![t.fd] = WriteAt(@, t.size, b)],
          task |-> [t EXCEPT !.size = t.size + 1]]
    ELSE [dir |-> fsDir, data |-> fsData, task |-> t]

\* the failures one byte's transfer can meet: none, the cache write, the other side
XferFaults(p) ==
    {"none"} \cup (IF faults < MaxFaults
                   THEN {"far"} \cup (IF ctask[p].pc = "copy" THEN {"cache"} ELSE {})
                   ELSE {})

(***************************************************************************)
(* CacheClient.Upload                                                      *)
(***************************************************************************)
\* A plausible slip: Upload closes the pipe with plain EOF on a primary error.
PipeAfterPrimaryEOF(failed) == "eof"

\* pw.CloseWithError(err) on a primary error, pw.Close() on success
PipeAfterPrimary(failed) == IF failed THEN "err" ELSE "eof"

\* primary.Upload copies one byte: the tee reads it from the content, writes
\* it to the pipe, and the primary takes it; a failing primary write aborts the
\* upload and Upload closes the pipe with the error
PrimaryCopy(p) ==
    /\ op[p].pc = "p_copy"
    /\ Len(op[p].pbuf) < Len(op[p].src)
    /\ PipeReady(p)
    /\ \E x \in XferFaults(p) :
         LET b == op[p].src[Len(op[p].pbuf) + 1]
             c == Consume(p, b, x = "cache")
         IN /\ faults' = faults + (IF x = "none" THEN 0 ELSE 1)
            /\ SetFS(c.dir, c.data,
                     [op EXCEPT ![p].pbuf = IF x = "far" THEN @ ELSE Append(@, b),
                                ![p].pc = IF x = "far" THEN "wait_fail" ELSE @,
                                ![p].perr = (x = "far")],
                     [ctask EXCEPT ![p] = c.task])
            /\ pipe' = [pipe EXCEPT ![p] = IF x = "far" THEN PipeAfterPrimary(TRUE) ELSE @]
    /\ UNCHANGED <<cfg, primary, lru, rw, wsr, hist, svc>>

\* the content is at EOF: the primary commits the object, or fails to
PrimaryCommit(p) ==
    /\ op[p].pc = "p_copy"
    /\ Len(op[p].pbuf) = Len(op[p].src)
    /\ \E f \in Faulty :
         /\ Bump(f)
         /\ primary' = IF f THEN primary
                       ELSE [primary EXCEPT ![op[p].key] = Obj(op[p].pbuf)]
         /\ op' = [op EXCEPT ![p].pc = IF f THEN "wait_fail" ELSE "wait", ![p].perr = f]
         /\ pipe' = [pipe EXCEPT ![p] = PipeAfterPrimary(f)]
    /\ UNCHANGED <<cfg, fsDir, fsData, lru, rw, ctask, wsr, hist, svc>>

\* A plausible slip: Upload returns the cache task's error.
UploadResultStrict(primaryFailed, cacheErr) ==
    IF primaryFailed \/ cacheErr THEN "err" ELSE "ok"

\* Upload's result: the primary's; the cache error is only logged
UploadResult(primaryFailed, cacheErr) == IF primaryFailed THEN "err" ELSE "ok"

\* SyncClient's deferred Unlock as Upload or Delete returns
UnlockAtReturn(k) == IF cfg.sync THEN [rw EXCEPT ![getLock(k)] = Unlock(@)] ELSE rw

\* wg.Wait(), then return
UploadWait(p) ==
    /\ op[p].pc \in {"wait", "wait_fail"}
    /\ ctask[p].pc = "done"
    /\ op' = [op EXCEPT ![p].pc = "done",
                        ![p].res = UploadResult(op[p].pc = "wait_fail", ctask[p].err)]
    /\ rw' = UnlockAtReturn(op[p].key)
    /\ Done(p, UploadResult(op[p].pc = "wait_fail", ctask[p].err))
    /\ UNCHANGED <<cfg, primary, fsDir, fsData, lru, ctask, pipe, wsr, faults, svc>>

(***************************************************************************)
(* CacheClient.Download and the reader it returns                          *)
(***************************************************************************)
\* cache.Download (os.Open); on success Access(key) and return the file
DownloadCache(p) ==
    /\ op[p].pc = "d_cache"
    /\ LET k == op[p].key IN
       \E f \in Faulty :
         /\ Bump(f)
         /\ IF fsDir[k].dst # 0 /\ ~f
            THEN /\ op' = [op EXCEPT ![p].pc = "reading", ![p].rsrc = "cache",
                                     ![p].rfd = fsDir[k].dst,
                                     ![p].touched = (LRUAccess(lru, k) # lru)]
                 /\ lru' = LRUAccess(lru, k)
            ELSE /\ op' = [op EXCEPT ![p].pc = "d_primary"]
                 /\ lru' = lru
    /\ UNCHANGED <<cfg, primary, fsDir, fsData, rw, ctask, pipe, wsr, hist, svc>>

\* primary.Download; on success pipe, tee, spawn the backfill task and return
\* the tee reader; on failure return the error (SyncClient releases the lock)
DownloadPrimary(p) ==
    /\ op[p].pc = "d_primary"
    /\ LET k == op[p].key IN
       \E f \in Faulty :
         /\ Bump(f)
         /\ IF primary[k].ok /\ ~f
            THEN /\ op' = [op EXCEPT ![p].pc = "reading", ![p].rsrc = "primary",
                                     ![p].snap = primary[k].data,
                                     ![p].popen = TRUE]
                 /\ ctask' = [ctask EXCEPT ![p] = NewTask(k)]
                 /\ pipe' = [pipe EXCEPT ![p] = "open"]
                 /\ rw' = rw
                 /\ hist' = hist
            ELSE /\ op' = [op EXCEPT ![p].pc = "done", ![p].res = "err"]
                 /\ rw' = IF cfg.sync
                          THEN [rw EXCEPT ![getLock(k)] = ReleaseOnError(@)] ELSE rw
                 /\ Done(p, "err")
                 /\ UNCHANGED <<ctask, pipe>>
    /\ UNCHANGED <<cfg, primary, fsDir, fsData, lru, wsr, svc>>

\* the caller reads one byte from the cached file, or meets its end
ReadCache(p) ==
    /\ op[p].pc = "reading" /\ op[p].rsrc = "cache" /\ ~op[p].eof
    /\ LET d == fsData[op[p].rfd] IN
       op' = [op EXCEPT ![p].got = IF op[p].roff < Len(d) THEN Append(@, d[op[p].roff + 1]) ELSE @,
                        ![p].roff = IF op[p].roff < Len(d) THEN @ + 1 ELSE @,
                        ![p].eof = ~(op[p].roff < Len(d))]
    /\ UNCHANGED <<cfg, primary, fsDir, fsData, lru, rw, ctask, pipe, wsr, hist, faults, svc>>

\* the caller reads one byte from the tee over the primary reader: the byte is
\* written to the pipe before the caller gets it
ReadPrimary(p) ==
    /\ op[p].pc = "reading" /\ op[p].rsrc = "primary" /\ ~op[p].eof
    /\ op[p].roff < Len(op[p].snap)
    /\ PipeReady(p)
    /\ \E x \in XferFaults(p) \ {"far"} :
         LET b == op[p].snap[op[p].roff + 1]
             c == Consume(p, b, x = "cache")
         IN /\ faults' = faults + (IF x = "none" THEN 0 ELSE 1)
            /\ SetFS(c.dir, c.data,
                     [op EXCEPT ![p].got = Append(@, b), ![p].roff = @ + 1],
                     [ctask EXCEPT ![p] = c.task])
    /\ UNCHANGED <<cfg, primary, lru, rw, pipe, wsr, hist, svc>>

\* the primary reader is at its end: the tee returns EOF and writes nothing
ReadPrimaryEOF(p) ==
    /\ op[p].pc = "reading" /\ op[p].rsrc = "primary" /\ ~op[p].eof
    /\ op[p].roff = Len(op[p].snap)
    /\ op' = [op EXCEPT ![p].eof = TRUE]
    /\ UNCHANGED <<cfg, primary, fsDir, fsData, lru, rw, ctask, pipe, wsr, hist, faults, svc>>

\* A plausible slip: Close leaves the pipe's write end open.
PipeAtCloseLeavesOpen(rsrc, cur) == cur

\* teePipeReadCloser.Close: pipeW.Close(), after which the pipe's reader meets
\* EOF; the reader of a cached file has no pipe
PipeAtClose(rsrc, cur) == IF rsrc = "primary" THEN "eof" ELSE cur

\* the caller closes the reader, at EOF or before: the file is closed, or
\* teePipeReadCloser.Close closes the pipe writer; LockedReadCloser.Close then
\* releases the read lock
CloseReader(p) ==
    /\ op[p].pc = "reading"
    /\ SetFS(fsDir, fsData,
             [op EXCEPT ![p].pc = "done", ![p].res = "ok", ![p].rfd = 0, ![p].closes = 1],
             ctask)
    /\ pipe' = [pipe EXCEPT ![p] = PipeAtClose(op[p].rsrc, @)]
    /\ rw' = IF cfg.sync THEN [rw EXCEPT ![getLock(op[p].key)] = RUnlock(@)] ELSE rw
    /\ Done(p, "ok")
    /\ UNCHANGED <<cfg, primary, lru, wsr, faults, svc>>

\* the caller closes a reader of the cached file and the file's Close returns
\* an error: LockedReadCloser.Close calls RUnlock all the same and returns it
CloseReaderErr(p) ==
    /\ op[p].pc = "reading" /\ op[p].rsrc = "cache"
    /\ faults < MaxFaults
    /\ faults' = faults + 1
    /\ SetFS(fsDir, fsData,
             [op EXCEPT ![p].pc = "done", ![p].res = "err", ![p].rfd = 0, ![p].closes = 1],
             ctask)
    /\ rw' = IF cfg.sync THEN [rw EXCEPT ![getLock(op[p].key)] = RUnlock(@)] ELSE rw
    /\ Done(p, "err")
    /\ UNCHANGED <<cfg, primary, lru, pipe, wsr, svc>>

\* sync.RWMutex.RUnlock with no reader holding the lock: "fatal error: sync:
\* RUnlock of unlocked RWMutex", which ends the process and all its goroutines
Fatal(o) == [q \in Procs |-> [o[q] EXCEPT !.pc = "fatal"]]

\* the caller closes a reader of SyncClient a second time: the inner Close is
\* called again (an error at most) and then RUnlock is called again, which
\* releases the read lock of another reader of the key or, when there is
\* none, is fatal
CloseAgain(p) ==
    /\ cfg.sync
    /\ op[p].kind = "Download" /\ op[p].pc = "done" /\ op[p].closes = 1
    /\ LET l == getLock(op[p].key)
           o == [op EXCEPT ![p].closes = 2]
       IN /\ rw' = [rw EXCEPT ![l] = RUnlock(@)]
          /\ IF rw[l].readers > 0
             THEN op' = o /\ ctask' = ctask
             ELSE op' = Fatal(o) /\ ctask' = Fatal(ctask)
    /\ UNCHANGED <<cfg, primary, fsDir, fsData, lru, pipe, wsr, hist, faults, svc>>

(***************************************************************************)
(* CacheClient.Delete                                                      *)
(***************************************************************************)
\* cache.Delete (os.Remove, absence is success); a failure is logged
DeleteCache(p) ==
    /\ op[p].pc = "del_cache"
    /\ \E f \in Faulty :
         /\ Bump(f)
         /\ IF f THEN SetFS(fsDir, fsData,
                            [op EXCEPT ![p].pc = "del_primary", ![p].cerr = TRUE], ctask)
            ELSE SetFS([fsDir EXCEPT ![op[p].key].dst = 0], fsData,
                       [op EXCEPT ![p].pc = "del_remove"], ctask)
    /\ UNCHANGED <<cfg, primary, lru, rw, pipe, wsr, hist, svc>>

\* evictionPolicy.Remove(key), only after cache.Delete succeeded
DeleteRemove(p) ==
    /\ op[p].pc = "del_remove"
    /\ LET k == op[p].key IN
       /\ lru' = LRURemove(lru, k)
       /\ op' = [op EXCEPT ![p].pc = "del_primary",
                           ![p].touched = (LRURemove(lru, k) # lru)]
       /\ wsr' = [wsr EXCEPT ![k] = @ /\ k \notin lru.items]
    /\ UNCHANGED <<cfg, primary, fsDir, fsData, rw, ctask, pipe, hist, faults, svc>>

\* A plausible slip: Delete fails when the cache could not be deleted either.
DeleteResultStrict(primaryFailed, cacheFailed) ==
    IF primaryFailed \/ cacheFailed THEN "err" ELSE "ok"

\* what Delete returns: the outcome of primary.Delete alone
DeleteResult(primaryFailed, cacheFailed) == IF primaryFailed THEN "err" ELSE "ok"

\* A plausible slip: deleting an object that is not there is an error.
DeleteObjectOkPresent(present) == present

\* project.DeleteObject on a healthy primary: deleting a key that holds no
\* object is no error
DeleteObjectOk(present) == TRUE

\* primary.Delete; its error is Delete's error
DeletePrimary(p) ==
    /\ op[p].pc = "del_primary"
    /\ \E f \in Faulty :
         LET failed == f \/ ~DeleteObjectOk(primary[op[p].key].ok) IN
         /\ Bump(f)
         /\ primary' = IF failed THEN primary ELSE [primary EXCEPT ![op[p].key] = NoObj]
         /\ op' = [op EXCEPT ![p].pc = "done", ![p].perr = failed,
                             ![p].res = DeleteResult(failed, op[p].cerr)]
         /\ Done(p, DeleteResult(failed, op[p].cerr))
    /\ rw' = UnlockAtReturn(op[p].key)
    /\ UNCHANGED <<cfg, fsDir, fsData, lru, ctask, pipe, wsr, svc>>

(***************************************************************************)
(* SyncClient: the lock steps around the wrapped client                    *)
(***************************************************************************)
\* RWMutex.Lock, first half: take the writers' mutex and announce the writer,
\* which blocks new readers
AcquireWMutex(p) ==
    /\ op[p].pc = "lock_w"
    /\ ~rw[getLock(op[p].key)].wmutex
    /\ rw' = [rw EXCEPT ![getLock(op[p].key)].wmutex = TRUE]
    /\ op' = [op EXCEPT ![p].pc = "lock_a"]
    /\ UNCHANGED <<cfg, primary, fsDir, fsData, lru, ctask, pipe, wsr, hist, faults, svc>>

\* RWMutex.Lock, second half: the active readers have left; enter the client
AcquireW(p) ==
    /\ op[p].pc = "lock_a"
    /\ CanLock(rw[getLock(op[p].key)])
    /\ rw' = [rw EXCEPT ![getLock(op[p].key)].writer = TRUE]
    /\ op' = [op EXCEPT ![p].pc = InnerPc(op[p].kind)]
    /\ ctask' = [ctask EXCEPT ![p] = TaskAtEntry(op[p].kind, op[p].key)]
    /\ pipe' = [pipe EXCEPT ![p] = PipeAtEntry(op[p].kind)]
    /\ UNCHANGED <<cfg, primary, fsDir, fsData, lru, wsr, hist, faults, svc>>

\* RWMutex.RLock
AcquireR(p) ==
    /\ op[p].pc = "lock_r"
    /\ CanRLock(rw[getLock(op[p].key)])
    /\ rw' = [rw EXCEPT ![getLock(op[p].key)].readers = @ + 1]
    /\ op' = [op EXCEPT ![p].pc = InnerPc("Download")]
    /\ UNCHANGED <<cfg, primary, fsDir, fsData, lru, ctask, pipe, wsr, hist, faults, svc>>

(***************************************************************************)
(* The eviction policy as the cache client calls it, one call after the    *)
(* other with a healthy cache backend: cacheUpload (Add, then the deletes  *)
(* of the evicted keys), a Download served by the cache (Access) and       *)
(* Delete (Remove).  hist is the log of the calls and the set of keys the  *)
(* cache backend holds.                                                    *)
(***************************************************************************)
LKeys == 1..LruKeys
\* object sizes: empty, two that fit together, two that do not, one over the limit
LruSizes == {0, 4, 6, 11}
\* maxSizeBytes: negative and zero (no limit) and a limit of ten bytes
LruLimits == {-1, 0, 10}

InitLRU ==
    /\ cfg \in {[CacheCfg EXCEPT !.maxSizeBytes = m] : m \in LruLimits}
    /\ primary = [k \in Keys |-> NoObj]
    /\ fsDir = [k \in Keys |-> NoEntry]
    /\ fsData = [i \in Inodes |-> <<>>]
    /\ lru = LRUEmpty
    /\ rw = [k \in Keys |-> FreeLock]
    /\ op = [p \in Procs |-> IdleOp]
    /\ ctask = [p \in Procs |-> IdleTask]
    /\ pipe = [p \in Procs |-> "none"]
    /\ wsr = [k \in Keys |-> FALSE]
    /\ hist = [log |-> <<>>, cached |-> {}]
    /\ faults = 0
    /\ svc = NoService

Call(kind, k, s, ret) == [kind |-> kind, key |-> k, size |-> s, ret |-> ret]

\* cacheUpload of s bytes under k
CallAdd(k, s) ==
    /\ Len(hist.log) < MaxCalls
    /\ LET r == LRUAdd(lru, cfg.maxSizeBytes, k, s) IN
       /\ lru' = r.lru
       /\ hist' = [log |-> Append(hist.log, Call("Add", k, s, r.evicted)),
                   cached |-> (hist.cached \cup {k})
                                \ {r.evicted[i] : i \in 1..Len(r.evicted)}]
    /\ UNCHANGED <<cfg, primary, fsDir, fsData, rw, op, ctask, pipe, wsr, faults, svc>>

\* Download of k served by the cache
CallAccess(k) ==
    /\ Len(hist.log) < MaxCalls
    /\ k \in hist.cached
    /\ lru' = LRUAccess(lru, k)
    /\ hist' = [hist EXCEPT !.log = Append(@, Call("Access", k, 0, <<>>))]
    /\ UNCHANGED <<cfg, primary, fsDir, fsData, rw, op, ctask, pipe, wsr, faults, svc>>

\* Delete of k
CallRemove(k) ==
    /\ Len(hist.log) < MaxCalls
    /\ lru' = LRURemove(lru, k)
    /\ hist' = [log |-> Append(hist.log, Call("Remove", k, 0, <<>>)),
                cached |-> hist.cached \ {k}]
    /\ UNCHANGED <<cfg, primary, fsDir, fsData, rw, op, ctask, pipe, wsr, faults, svc>>

(***************************************************************************)
(* Service.Push, the worker and Service.Pull.                              *)
(***************************************************************************)
\* Push calls made so far, refused or not
PushCalls(sv) == Len(sv.jobs) + sv.refused

\* A plausible slip: Push does not look for the version row.
VersionExistsNever(k) == FALSE

\* tx.GetTemplateVersion finds the row of (template, version)
VersionExists(k) == svc.versions[k].ok

\* Push of a version that exists: template_version.already_exists; the
\* deferred tx.Rollback leaves nothing behind
PushRefused ==
    /\ ~svc.crashed
    /\ PushCalls(svc) < cfg.pushes
    /\ \E k \in Keys :
         /\ VersionExists(k)
         /\ svc' = [svc EXCEPT !.refused = @ + 1,
                               !.last = [key |-> k, res |-> "already_exists"]]
    /\ UNCHANGED <<cfg, primary, fsDir, fsData, lru, rw, op, ctask, pipe, wsr, hist, faults>>

\* Push up to tx.Commit: the version must not exist yet; CreateJob
PushTx ==
    /\ ~svc.crashed
    /\ PushCalls(svc) < cfg.pushes
    /\ \E k \in Keys, c \in Files, n \in BOOLEAN :
         /\ ~VersionExists(k)
         /\ n => c = <<>>
         /\ svc' = [svc EXCEPT !.jobs = Append(@, [NewJob(k, c) EXCEPT !.nofile = n]),
                               !.last = [key |-> k, res |-> "none"]]
    /\ UNCHANGED <<cfg, primary, fsDir, fsData, lru, rw, op, ctask, pipe, wsr, hist, faults>>

\* A plausible slip: the send does not wait for room in the queue.
HasRoomAlways(q) == TRUE

\* a send on the buffered channel goes through when the buffer has room
HasRoom(q) == Len(q) < cfg.jobBuffer

\* Push: s.jobs <- jobFn, which waits while the queue is full; return nil
PushEnqueue ==
    /\ ~svc.crashed
    /\ HasRoom(svc.queue)
    /\ \E j \in 1..Len(svc.jobs) :
         /\ ~svc.jobs[j].queued
         /\ svc' = [svc EXCEPT !.jobs[j].queued = TRUE,
                               !.queue = Append(@, j),
                               !.order = Append(@, j),
                               !.pushes[svc.jobs[j].key] = @ + 1,
                               !.last = [key |-> svc.jobs[j].key, res |-> "ok"]]
    /\ UNCHANGED <<cfg, primary, fsDir, fsData, lru, rw, op, ctask, pipe, wsr, hist, faults>>

\* A plausible slip: the worker takes the task sent last.
NextTaskLast(q) == q[Len(q)]

\* for job := range jobs: the task sent first
NextTask(q) == Head(q)

\* the queue without the task j
Without(q, j) == LET NotJ(x) == x # j IN SelectSeq(q, NotJ)

\* The worker takes the next task, whose params.File.Open fails
JobOpenFails ==
    /\ ~svc.crashed
    /\ svc.running = 0 /\ svc.queue # <<>>
    /\ ~svc.jobs[NextTask(svc.queue)].nofile
    /\ faults < MaxFaults
    /\ faults' = faults + 1
    /\ LET j == NextTask(svc.queue) IN
       svc' = [svc EXCEPT !.queue = Without(@, j),
                          !.started = Append(@, j),
                          !.jobs[j].status = "error",
                          !.jobs[j].msg = TRUE,
                          !.jobs[j].outcome = "error"]
    /\ UNCHANGED <<cfg, primary, fsDir, fsData, lru, rw, op, ctask, pipe, wsr, hist>>

\* The worker takes the next task, whose params.File is nil: File.Open
\* panics, the worker loop has no recover, and the process dies with all its
\* goroutines; the files of the cache directory stay
JobPanics ==
    /\ ~svc.crashed
    /\ svc.running = 0 /\ svc.queue # <<>>
    /\ svc.jobs[NextTask(svc.queue)].nofile
    /\ LET j == NextTask(svc.queue) IN
       svc' = [svc EXCEPT !.queue = Without(@, j),
                          !.started = Append(@, j),
                          !.jobs[j].outcome = "panic",
                          !.crashed = TRUE]
    /\ SetFS(fsDir, fsData, [p \in Procs |-> IdleOp], [p \in Procs |-> IdleTask])
    /\ pipe' = [p \in Procs |-> "none"]
    /\ UNCHANGED <<cfg, primary, lru, rw, wsr, hist, faults>>

\* The worker takes the next task, opens the file, starts the progress
\* reporter and calls objectStore.Upload
JobStart ==
    /\ ~svc.crashed
    /\ svc.running = 0 /\ svc.queue # <<>>
    /\ ~svc.jobs[NextTask(svc.queue)].nofile
    /\ CanStart(Worker)
    /\ LET j == NextTask(svc.queue) IN
         /\ Begin(Worker, "Upload", svc.jobs[j].key, svc.jobs[j].file)
         /\ svc' = [svc EXCEPT !.queue = Without(@, j), !.running = j,
                               !.started = Append(@, j),
                               !.jobs[j].rep = "on"]

\* the bytes the upload has read from the file through the progress reader:
\* those the primary took, and the one whose write to the primary failed
BytesRead(o) ==
    Len(o.pbuf) + (IF o.perr /\ Len(o.pbuf) < Len(o.src) THEN 1 ELSE 0)

\* Upload has returned: on an error the job ends in error; else
\* CreateTemplateVersion, which the unique index on (template, version)
\* refuses when the row exists, and the job ends completed
JobFinish ==
    /\ ~svc.crashed
    /\ svc.running # 0
    /\ op[Worker].kind = "Upload" /\ op[Worker].pc = "done"
    /\ LET j == svc.running
           k == svc.jobs[j].key
           c == svc.jobs[j].file
           up == op[Worker].res = "ok"
       IN svc' = IF ~up \/ svc.versions[k].ok
                 THEN [svc EXCEPT !.running = 0, !.jobs[j].status = "error",
                                  !.jobs[j].msg = TRUE,
                                  !.jobs[j].outcome = "error",
                                  !.jobs[j].uploaded = up,
                                  !.jobs[j].read = BytesRead(op[Worker])]
                 ELSE [svc EXCEPT !.running = 0, !.jobs[j].status = "completed",
                                  !.jobs[j].outcome = "completed",
                                  !.jobs[j].uploaded = TRUE,
                                  !.jobs[j].ver = TRUE,
                                  !.jobs[j].read = BytesRead(op[Worker]),
                                  !.versions[k] = [ok |-> TRUE, hash |-> Hash(c),
                                                   size |-> Len(c), file |-> c]]
    /\ UNCHANGED <<cfg, primary, fsDir, fsData, lru, rw, op, ctask, pipe, wsr, hist, faults>>

\* int64(NaN * 100): the conversion of a NaN is implementation-dependent; it
\* gives 0 on arm64 and the least int64 on amd64, for which NaNOnAmd64 stands.
NaNOnAmd64 == -1
NaNAsInt64 == {0, NaNOnAmd64}

\* Progress() and int64(progress * 100) for cur bytes of total: total = 0
\* gives 0/0, a NaN
Percents(cur, total) ==
    IF total = 0 THEN NaNAsInt64 ELSE {(cur * 100) \div total}

\* progress >= 1.0, which a NaN is not
ReporterDone(cur, total) == total > 0 /\ cur >= total

\* A tick of the progress reporter of job j: it reads the reader's byte count
\* (unsynchronized: the latest value or an earlier one, never older than the
\* one it read before), writes status uploading and the progress, and ends
\* when the progress has reached 1.0; its context is never cancelled
ReporterTick ==
    /\ ~svc.crashed
    /\ svc.ticks < MaxTicks
    /\ \E j \in 1..Len(svc.jobs) :
         /\ svc.jobs[j].rep = "on"
         /\ LET total == Len(svc.jobs[j].file)
                cur == IF svc.running = j THEN BytesRead(op[Worker])
                       ELSE svc.jobs[j].read
            IN \E v \in svc.jobs[j].seen..cur : \E pct \in Percents(v, total) :
                 svc' = [svc EXCEPT !.ticks = @ + 1,
                                    !.jobs[j].seen = v,
                                    !.jobs[j].status = "uploading",
                                    !.jobs[j].progress = pct,
                                    !.jobs[j].rep = IF ReporterDone(v, total)
                                                    THEN "off" ELSE "on"]
    /\ UNCHANGED <<cfg, primary, fsDir, fsData, lru, rw, op, ctask, pipe, wsr, hist, faults>>

(***************************************************************************)
(* Push as the request handler that does all the work itself: the job row  *)
(* is created first, outside any transaction, then come the checks, the    *)
(* upload and the version row.  One request at a time; handling is the job *)
(* whose checks are still to come.  The handler's progress reporter, which *)
(* ends with the request, writes no status after the handler's last.       *)
(***************************************************************************)
\* Push: CreateJob with status pending, before anything is checked
PushCreateJob ==
    /\ ~svc.crashed
    /\ PushCalls(svc) < cfg.pushes
    /\ svc.handling = 0 /\ svc.running = 0
    /\ \E k \in Keys, c \in Files :
         svc' = [svc EXCEPT !.jobs = Append(@, NewJob(k, c)),
                            !.handling = Len(svc.jobs) + 1,
                            !.last = [key |-> k, res |-> "none"]]
    /\ UNCHANGED <<cfg, primary, fsDir, fsData, lru, rw, op, ctask, pipe, wsr, hist, faults>>

\* Push: GetTemplate, CreateTemplate or GetTemplateVersion fails, or the
\* version row exists: the handler returns the error; no UpdateJob
PushCheckFails ==
    /\ ~svc.crashed
    /\ svc.handling # 0
    /\ LET j == svc.handling
           k == svc.jobs[j].key
       IN \E f \in Faulty :
            /\ Bump(f)
            /\ f \/ VersionExists(k)
            /\ svc' = [svc EXCEPT !.handling = 0,
                                  !.jobs[j].outcome = "returned",
                                  !.last = [key |-> k,
                                            res |-> IF f THEN "err"
                                                    ELSE "already_exists"]]
    /\ UNCHANGED <<cfg, primary, fsDir, fsData, lru, rw, op, ctask, pipe, wsr, hist>>

\* Push: the checks pass and params.File.Open fails: UpdateJob error
PushOpenFails ==
    /\ ~svc.crashed
    /\ svc.handling # 0
    /\ ~VersionExists(svc.jobs[svc.handling].key)
    /\ faults < MaxFaults
    /\ faults' = faults + 1
    /\ LET j == svc.handling IN
       svc' = [svc EXCEPT !.handling = 0,
                          !.jobs[j].status = "error",
                          !.jobs[j].msg = TRUE,
                          !.jobs[j].outcome = "error",
                          !.last = [key |-> svc.jobs[j].key, res |-> "err"]]
    /\ UNCHANGED <<cfg, primary, fsDir, fsData, lru, rw, op, ctask, pipe, wsr, hist>>

\* Push: the checks pass, the file opens, objectStore.Upload is called
PushUpload ==
    /\ ~svc.crashed
    /\ svc.handling # 0
    /\ ~VersionExists(svc.jobs[svc.handling].key)
    /\ CanStart(Worker)
    /\ LET j == svc.handling IN
         /\ Begin(Worker, "Upload", svc.jobs[j].key, svc.jobs[j].file)
         /\ svc' = [svc EXCEPT !.handling = 0, !.running = j,
                               !.started = Append(@, j)]

\* Pull: the version row exists; objectStore.Download of its key
PullStart(p) ==
    /\ ~svc.crashed
    /\ CanStart(p)
    /\ \E k \in Keys :
         /\ svc.versions[k].ok
         /\ Begin(p, "Download", k, <<>>)
    /\ UNCHANGED svc

StartStep(p) == StartUpload(p) \/ StartDownload(p) \/ StartDelete(p)

CacheWork(p) ==
    \/ CreateTmp(p) \/ CopyEnd(p) \/ RemoveDst(p) \/ Rename(p) \/ Add(p)
    \/ Evict(p) \/ DrainEnd(p)
    \/ PrimaryCopy(p) \/ PrimaryCommit(p) \/ UploadWait(p)
    \/ DownloadCache(p) \/ DownloadPrimary(p) \/ ReadCache(p) \/ ReadPrimary(p)
    \/ ReadPrimaryEOF(p) \/ CloseReader(p)

UploadWork(p) ==
    \/ CreateTmp(p) \/ CopyEnd(p) \/ RemoveDst(p) \/ Rename(p) \/ Add(p)
    \/ Evict(p) \/ DrainEnd(p)
    \/ PrimaryCopy(p) \/ PrimaryCommit(p) \/ UploadWait(p)

DownloadWork(p) ==
    \/ CreateTmp(p) \/ CopyEnd(p) \/ RemoveDst(p) \/ Rename(p) \/ Add(p)
    \/ Evict(p) \/ DrainEnd(p)
    \/ DownloadCache(p) \/ DownloadPrimary(p) \/ ReadCache(p) \/ ReadPrimary(p)
    \/ ReadPrimaryEOF(p) \/ CloseReader(p)

\* the steps of the task that writes the cache: cacheUpload and the drain
TaskWork(p) ==
    \/ CreateTmp(p) \/ CopyEnd(p) \/ RemoveDst(p) \/ Rename(p) \/ Add(p)
    \/ Evict(p) \/ DrainEnd(p)

DeleteWork(p) == DeleteCache(p) \/ DeleteRemove(p) \/ DeletePrimary(p)

CacheStep(p) == StartStep(p) \/ CacheWork(p) \/ DeleteWork(p)

LockStep(p) == AcquireWMutex(p) \/ AcquireW(p) \/ AcquireR(p)

Next == \E p \in Procs : CacheStep(p)
NextSync == \E p \in Procs : CacheStep(p) \/ LockStep(p)
NextSeq == CacheStep(1)
NextMiss == \E p \in Procs : StartDownload(p) \/ DownloadWork(p)
NextBackfill == StartDownload(1) \/ DownloadWork(1)
NextShared == \E p \in Procs : StartDownload(p) \/ DownloadWork(p) \/ AcquireR(p)
NextReadDelete ==
    \E p \in Procs : \/ StartDownload(p) \/ StartDelete(p)
                     \/ DownloadWork(p) \/ DeleteWork(p) \/ LockStep(p)
NextClose ==
    \E p \in Procs : \/ StartDownload(p) \/ DownloadWork(p) \/ AcquireR(p)
                     \/ CloseReaderErr(p) \/ CloseAgain(p)
NextLRU ==
    \/ \E k \in LKeys, s \in LruSizes : CallAdd(k, s)
    \/ \E k \in LKeys : CallAccess(k)
    \/ \E k \in LKeys : CallRemove(k)
PushWork ==
    \/ PushCheckFails \/ PushOpenFails \/ PushUpload \/ JobFinish
    \/ UploadWork(Worker)
NextPush == PushCreateJob \/ PushWork
NextJobs ==
    \/ PushRefused \/ PushTx \/ PushEnqueue
    \/ JobOpenFails \/ JobPanics \/ JobStart \/ JobFinish \/ ReporterTick
    \/ UploadWork(Worker)
NextQueue ==
    \/ PushRefused \/ PushTx \/ PushEnqueue
    \/ JobOpenFails \/ JobPanics \/ JobStart \/ JobFinish
    \/ UploadWork(Worker)
NextSvc ==
    \/ PushRefused \/ PushTx \/ PushEnqueue
    \/ JobOpenFails \/ JobPanics \/ JobStart \/ JobFinish
    \/ \E p \in Pullers : PullStart(p)
    \/ \E p \in Procs : CacheWork(p)

\* CacheClient called directly by concurrent callers
Spec == Init /\ [][Next]_vars
\* CacheClient called by one caller, one operation after the other
SpecSeq == InitSeq /\ [][NextSeq]_vars
\* The same, with the goroutines of Upload (the caller's, which drives the
\* primary upload, and the cache task) scheduled as long as they can run
SpecLive == InitSeq /\ [][NextSeq]_vars /\ WF_vars(UploadWork(1))
\* CacheClient behind SyncClient
SpecSync == InitSync /\ [][NextSync]_vars
\* CacheClient with a cache smaller than the largest object
SpecTight == InitTight /\ [][Next]_vars
\* CacheClient serving Downloads from an empty cache over a filled primary
SpecMiss == InitMiss /\ [][NextMiss]_vars
\* One caller's Downloads, one after the other, over a filled primary and an
\* empty cache; the backfill goroutine is scheduled as long as it can run
SpecBackfill == InitMiss /\ [][NextBackfill]_vars /\ WF_vars(TaskWork(1))
\* SyncClient's Downloads over a filled primary and an empty cache
SpecShared == InitShared /\ [][NextShared]_vars
\* SyncClient's Downloads and Deletes over a filled primary and an empty cache
SpecReadDelete == InitShared /\ [][NextReadDelete]_vars
\* SyncClient's Downloads and the readers they return, closed once or twice
SpecClose == InitShared /\ [][NextClose]_vars
\* The eviction policy under the calls of the cache client, one after the other
SpecLRU == InitLRU /\ [][NextLRU]_vars
\* The Service's pushes, its worker and the progress reporters
SpecJobs == Init /\ [][NextJobs]_vars
\* The Service's pushes done by the request handler itself, which goes on
\* as long as it can
SpecPush == Init /\ [][NextPush]_vars /\ WF_vars(PushWork)
\* The Service's pushes and its worker with the longer job queue
SpecQueue == InitQueue /\ [][NextQueue]_vars
\* The Service over CacheClient: pushes, the worker and pulls
SpecSvc == Init /\ [][NextSvc]_vars

(***************************************************************************)
(* Statements about SyncClient (checked under SpecSync)                    *)
(***************************************************************************)
\* p is inside the wrapped client's Upload or Delete of k
InsideW(p, k) ==
    /\ op[p].key = k
    /\ op[p].kind \in {"Upload", "Delete"}
    /\ op[p].pc \notin {"idle", "lock_w", "lock_a", "done"}

\* p is inside the wrapped client's Download of k, or holds its unclosed reader
InsideR(p, k) ==
    /\ op[p].key = k
    /\ op[p].kind = "Download"
    /\ op[p].pc \in {"d_cache", "d_primary", "reading"}

\* After Uploads alone, all returned: the primary holds the content of the
\* last one that succeeded, the cache none or the content of one of them.
StoredIsAnUpload(k) ==
    LET h == hist.key[k] IN
    (h.kinds = {"Upload"} /\ h.busy = 0 /\ h.okups # <<>>) =>
        /\ primary[k] = Obj(h.okups[Len(h.okups)])
        /\ fsDir[k].dst # 0 =>
             \E i \in 1..Len(h.okups) : fsData[fsDir[k].dst] = h.okups[i]

\* C1: while an Upload or Delete of a key is inside the wrapped client, no
\* other Upload, Delete or Download of that key is inside it and no reader of
\* that key is unclosed; so after concurrent Uploads of a key have all
\* returned, the stored object is the whole content of one of them.
C1_WritesExclusive ==
    \A k \in Keys :
        /\ \A p, q \in Procs :
             (p # q /\ InsideW(p, k)) => (~InsideW(q, k) /\ ~InsideR(q, k))
        /\ StoredIsAnUpload(k)

\* an Upload is mid-stream inside the client while another Upload of the same
\* key waits for the lock
C1_Witness ==
    \E k \in Keys : \E p, q \in Procs :
        /\ p # q /\ InsideW(p, k) /\ op[p].kind = "Upload" /\ op[p].pbuf # <<>>
        /\ op[q].key = k /\ op[q].kind = "Upload" /\ op[q].pc = "lock_w"

(***************************************************************************)
(* Statements about CacheClient                                            *)
(***************************************************************************)
\* C2: after two successful Uploads of a key, the second started after the
\* first returned, a Download of the key started after the second returned
\* and read to EOF yields the second Upload's bytes.
C2_DownloadSeesLastUpload ==
    \A p \in Procs :
        (/\ op[p].kind = "Download" /\ op[p].pc = "done" /\ op[p].res = "ok"
         /\ op[p].eof
         /\ op[p].want.valid
         /\ hist.key[op[p].key].n = op[p].want.n)
        => op[p].got = op[p].want.data

\* C5: an Upload whose primary.Upload failed returns an error, its cache task
\* has not changed the LRU state, not called Add and committed no object; the
\* cache side commits only after primary.Upload returned success.
C5_PrimaryFailureLeavesCache ==
    \A p \in Procs :
        op[p].kind = "Upload" =>
            /\ op[p].perr =>
                 (~ctask[p].committed /\ ~ctask[p].added /\ ~ctask[p].touched)
            /\ (op[p].perr /\ op[p].pc = "done") => op[p].res = "err"
            /\ ctask[p].committed => (op[p].pc \in {"wait", "done"} /\ ~op[p].perr)

\* an Upload returned the primary's error after its cache task had written
\* bytes to the temp file
C5_Witness ==
    \E p \in Procs :
        /\ op[p].kind = "Upload" /\ op[p].pc = "done" /\ op[p].perr
        /\ op[p].res = "err" /\ ctask[p].size > 0 /\ ctask[p].pc = "done"

\* C6: when the cache write fails and the primary side succeeds, Upload
\* returns success and a cache-miss Download read to EOF yields all primary
\* bytes; Add is not called by the task whose cache write failed.
C6_CacheFailureSwallowed ==
    \A p \in Procs :
        /\ ctask[p].err => ~ctask[p].added
        /\ (op[p].kind = "Upload" /\ op[p].pc = "done" /\ ~op[p].perr)
             => op[p].res = "ok"
        /\ (op[p].kind = "Download" /\ op[p].rsrc = "primary" /\ op[p].pc = "done"
              /\ op[p].eof)
             => (op[p].res = "ok" /\ op[p].got = op[p].snap)

\* an Upload returned success although its cache write had failed
C6_Witness ==
    \E p \in Procs :
        /\ op[p].kind = "Upload" /\ op[p].pc = "done" /\ ~op[p].perr
        /\ ctask[p].err /\ op[p].res = "ok"

\* C7: with maxSizeBytes > 0 the sizes tracked by the LRU sum to at most
\* maxSizeBytes in every state outside Add, so after every Add and after every
\* Upload, also when the inserted entry alone is larger than maxSizeBytes.
C7_SizeWithinBudget ==
    cfg.maxSizeBytes > 0 => SumSizes(lru.order) <= cfg.maxSizeBytes

\* an Upload returned success after its Add inserted an entry larger than
\* maxSizeBytes
C7_Witness ==
    \E p \in Procs :
        /\ op[p].kind = "Upload" /\ op[p].pc = "done" /\ op[p].res = "ok"
        /\ ctask[p].added /\ ctask[p].size > cfg.maxSizeBytes
        /\ cfg.maxSizeBytes > 0

\* C8: every key in the LRU map has had a cache-backend Upload complete since
\* the key was last removed from the map.
C8_TrackedKeysWritten == \A k \in lru.items : wsr[k]

\* C9 as stated: once a Delete of k has returned, the LRU holds no entry for k.
C9_NoEntryAfterDelete ==
    \A p \in Procs :
        (op[p].kind = "Delete" /\ op[p].pc = "done") => op[p].key \notin lru.items

\* C9, amended: the Remove that Delete calls after a successful cache.Delete
\* leaves no entry for k, lowers currentSize by exactly the size tracked for k
\* (0 if untracked) and leaves the other entries as they were; a Delete whose
\* cache.Delete failed leaves the LRU as it was.
C9_RemoveAfterCacheDelete ==
    [][\A p \in Procs :
         LET k == op[p].key
             NotK(e) == e.key # k
         IN /\ (op[p].pc = "del_remove" /\ op'[p].pc = "del_primary") =>
                 /\ k \notin lru'.items
                 /\ lru'.items = lru.items \ {k}
                 /\ lru'.order = SelectSeq(lru.order, NotK)
                 /\ lru'.currentSize =
                      lru.currentSize - (IF k \in lru.items THEN SizeOf(lru, k) ELSE 0)
            /\ (op[p].pc = "del_cache" /\ op'[p].pc = "del_primary") => lru' = lru
      ]_vars

\* a Delete has removed a tracked entry while another key stays tracked
C9_Witness ==
    \E p \in Procs :
        /\ op[p].kind = "Delete" /\ op[p].pc = "del_primary" /\ op[p].touched
        /\ lru.items # {}

\* the step in which the backfill task of a cache-miss Download, read to EOF
\* and closed, ends without a cache I/O failure of its own
BackfillFinishes(p) ==
    /\ op[p].kind = "Download" /\ op[p].rsrc = "primary"
    /\ op[p].pc = "done" /\ op[p].eof
    /\ ctask[p].pc # "done" /\ ctask'[p].pc = "done" /\ ~ctask'[p].err

\* the cache backend holds exactly b under k
CacheHolds(dir, data, k, b) == dir[k].dst # 0 /\ data[dir[k].dst] = b

\* C10: a cache-miss Download of k read to EOF and closed yields the primary
\* object B, and when its backfill task finishes without a cache I/O failure
\* the cache backend holds exactly B under k and the LRU tracks k with size
\* Len(B).
C10_BackfillFillsCache ==
    [][\A p \in Procs :
         BackfillFinishes(p) =>
            /\ op[p].got = op[p].snap
            /\ CacheHolds(fsDir', fsData', op[p].key, op[p].snap)
            /\ op[p].key \in lru'.items
            /\ SizeOf(lru', op[p].key) = Len(op[p].snap)
      ]_vars

(***************************************************************************)
(* Statements about the Service (checked under SpecSvc)                    *)
(***************************************************************************)
\* C3: when the one Push accepted for a key has its job completed, a Pull of
\* the key read to EOF yields exactly the pushed bytes.
C3_PullYieldsPushed ==
    \A p \in Pullers :
        (/\ op[p].kind = "Download" /\ op[p].pc = "done" /\ op[p].res = "ok"
         /\ op[p].eof
         /\ svc.pushes[op[p].key] = 1
         /\ svc.versions[op[p].key].ok)
        => op[p].got = svc.versions[op[p].key].file

\* nothing is queued, running or in flight
Quiescent ==
    /\ svc.running = 0 /\ svc.queue = <<>>
    /\ \A j \in 1..Len(svc.jobs) : svc.jobs[j].queued
    /\ \A p \in Procs : op[p].pc \in {"idle", "done"} /\ ctask[p].pc \in {"idle", "done"}

\* C4: at every quiescent state the hash recorded in a TemplateVersion row is
\* the hash of the bytes the primary backend stores under the row's key.
C4_HashMatchesPrimary ==
    Quiescent =>
        \A k \in Keys :
            svc.versions[k].ok =>
                (primary[k].ok /\ svc.versions[k].hash = Hash(primary[k].data))

(***************************************************************************)
(* Statements about concurrent cache misses (checked under SpecMiss)       *)
(***************************************************************************)
\* p and q have each made a cache-miss Download of one key, read it to EOF
\* and closed it, and both backfill tasks have ended
PairDone(o, t, p, q) ==
    /\ p # q
    /\ o[p].kind = "Download" /\ o[q].kind = "Download" /\ o[p].key = o[q].key
    /\ o[p].rsrc = "primary" /\ o[q].rsrc = "primary"
    /\ o[p].pc = "done" /\ o[q].pc = "done" /\ o[p].eof /\ o[q].eof
    /\ t[p].pc = "done" /\ t[q].pc = "done"

\* the step that ends two cache-miss Downloads of one key, the only
\* operations made so far
PairEnds(p, q) ==
    /\ hist.n = 2
    /\ ~PairDone(op, ctask, p, q)
    /\ PairDone(op', ctask', p, q)

\* the LRU l has exactly one entry for k, of size n
OneEntry(l, k, n) ==
    /\ k \in l.items
    /\ Cardinality({i \in 1..Len(l.order) : l.order[i].key = k}) = 1
    /\ SizeOf(l, k) = n

\* C11: two concurrent Downloads of a key absent from the cache and present
\* in the primary both yield the full primary bytes, and when both readers
\* are closed and both backfill tasks have ended the LRU has exactly one entry
\* for the key, whose size is the object's length.
C11_TwoMissesOneEntry ==
    [][\A p, q \in Procs :
         PairEnds(p, q) =>
            LET k == op'[p].key IN
            /\ op'[p].res = "ok" /\ op'[q].res = "ok"
            /\ op'[p].got = primary[k].data /\ op'[q].got = primary[k].data
            /\ OneEntry(lru', k, Len(primary[k].data))
      ]_vars

\* the task of p is inside the cache backend's Upload of k: its temp file is
\* created and not yet renamed or given up
InCacheWrite(p, k) == ctask[p].key = k /\ ctask[p].pc \in {"copy", "remove", "rename"}

\* C12: cache-backend writes of one key never overlap in time, and when two
\* concurrent cache-miss Downloads of a key are closed and their backfill
\* tasks have ended, the cache backend holds under the key no object or
\* exactly the primary's bytes.
C12_BackfillsSerialized ==
    [][/\ \A p, q \in Procs : \A k \in Keys :
            p # q => ~(InCacheWrite(p, k) /\ InCacheWrite(q, k))
       /\ \A p, q \in Procs :
            PairEnds(p, q) =>
               LET k == op'[p].key IN
               fsDir'[k].dst = 0 \/ fsData'[fsDir'[k].dst] = primary[k].data
      ]_vars

\* C12, second half alone: the state of the cache after two concurrent
\* cache-miss Downloads of a key.
C12_CacheAfterMisses ==
    [][\A p, q \in Procs :
         PairEnds(p, q) =>
            LET k == op'[p].key IN
            fsDir'[k].dst = 0 \/ fsData'[fsDir'[k].dst] = primary[k].data
      ]_vars

(***************************************************************************)
(* Statements about the jobs (checked under SpecJobs)                      *)
(***************************************************************************)
JobIds == 1..Len(svc.jobs)

\* C13: the status of a job row goes from pending, through uploading or not,
\* to exactly one of completed and error, and no later write changes a
\* status that is completed or error.
C13_StatusSequence ==
    [][\A j \in JobIds :
         LET a == svc.jobs[j].status
             b == svc'.jobs[j].status
         IN /\ a \in {"completed", "error"} => b = a
            /\ a = "pending" => b \in {"pending", "uploading", "completed", "error"}
            /\ a = "uploading" => b \in {"uploading", "completed", "error"}
      ]_vars

\* C14: the progress written to a job row never decreases.
C14_ProgressMonotonic ==
    [][\A j \in JobIds : svc'.jobs[j].progress >= svc.jobs[j].progress]_vars

\* C15: a task whose file could not be opened, whose Upload failed or whose
\* TemplateVersion insert failed leaves its job row in status error with an
\* error message and inserts no TemplateVersion row; a task inserts the row
\* only after its Upload returned success.
C15_FailedTaskEndsInError ==
    \A j \in JobIds :
        /\ svc.jobs[j].outcome = "error" =>
             (svc.jobs[j].status = "error" /\ svc.jobs[j].msg /\ ~svc.jobs[j].ver)
        /\ svc.jobs[j].ver => svc.jobs[j].uploaded

\* C16: a Push of a version whose TemplateVersion row exists returns
\* template_version.already_exists, creates no job, sends no task to the
\* queue and starts no Upload, so the primary keeps what it stores.
C16_DuplicateRefused ==
    [][\A k \in Keys :
         (/\ svc.versions[k].ok
          /\ PushCalls(svc') = PushCalls(svc) + 1
          /\ svc'.last.key = k)
         => /\ svc'.last.res = "already_exists"
            /\ svc'.jobs = svc.jobs /\ svc'.queue = svc.queue
            /\ svc'.versions = svc.versions
            /\ op' = op /\ primary' = primary
      ]_vars

\* a Push of an existing version has been refused while the version's bytes
\* are in the primary
C16_Witness ==
    /\ svc.refused > 0 /\ svc.last.res = "already_exists"
    /\ svc.versions[svc.last.key].ok /\ primary[svc.last.key].ok

\* C17: when a task panics, the worker keeps running and the row of the
\* panicking job is set to status error.
C17_WorkerSurvivesPanic ==
    \A j \in JobIds :
        svc.jobs[j].outcome = "panic" =>
            (~svc.crashed /\ svc.jobs[j].status = "error")

Executing == {j \in JobIds : svc.jobs[j].outcome = "none" /\ \E i \in 1..Len(svc.started) : svc.started[i] = j}

IsPrefix(a, b) == Len(a) <= Len(b) /\ \A i \in 1..Len(a) : a[i] = b[i]

C20_WaitedThenSent ==
    \E i, j \in 1..Len(svc.order) : i < j /\ svc.order[i] > svc.order[j]

(***************************************************************************)
(* Statements about the readers of SyncClient (checked under SpecClose)    *)
(***************************************************************************)
\* C21: the first Close of a reader returned by SyncClient.Download releases
\* the read lock of its key, also when the inner Close returns an error, and a
\* further Close of the same reader does not release the lock again.
C21_ReadLockReleasedOnce ==
    [][\A p \in Procs :
         /\ (op[p].kind = "Download" /\ op[p].pc = "reading" /\ op'[p].pc = "done")
            => rw'[getLock(op[p].key)].readers = rw[getLock(op[p].key)].readers - 1
         /\ (op[p].closes = 1 /\ op'[p].closes = 2) => rw' = rw
      ]_vars

(***************************************************************************)
(* Statements about the locks of SyncClient (checked under SpecSync and    *)
(* SpecShared)                                                             *)
(***************************************************************************)
\* the Downloads of k that are inside the wrapped client or have an unclosed reader
ReadersOf(k) == {q \in Procs : InsideR(q, k)}

\* C22: a SyncClient.Download whose backend Download failed has returned an
\* error and holds no read lock: the lock counts only the Downloads that are
\* inside the backend or have an unclosed reader, so a later Upload or Delete
\* of the key does not wait for it.
C22_FailedDownloadHoldsNoLock ==
    \A p \in Procs :
        (op[p].kind = "Download" /\ op[p].pc = "done" /\ op[p].res = "err") =>
            rw[getLock(op[p].key)].readers = Cardinality(ReadersOf(op[p].key))

\* a Download of k has failed and, with nothing closed since, an Upload or
\* Delete of k is inside the backend
C22_Witness ==
    \E p, q \in Procs :
        /\ op[p].kind = "Download" /\ op[p].pc = "done" /\ op[p].res = "err"
        /\ op[p].closes = 0
        /\ p # q /\ InsideW(q, op[p].key)

\* no other caller has an operation on p's key in progress
AloneOnKey(p) ==
    \A q \in Procs \ {p} : op[q].pc \in {"idle", "done"} \/ op[q].key # op[p].key

\* C23: operations on distinct keys do not wait for each other: a caller that
\* is alone on its key can take the key's lock at once, whatever the callers
\* on the other keys are doing.
C23_DistinctKeysIndependent ==
    \A p \in Procs :
        AloneOnKey(p) =>
            /\ op[p].pc = "lock_w" => ~rw[getLock(op[p].key)].wmutex
            /\ op[p].pc = "lock_a" => CanLock(rw[getLock(op[p].key)])
            /\ op[p].pc = "lock_r" => CanRLock(rw[getLock(op[p].key)])

\* an Upload or Delete is inside the backend while, on another key, an Upload
\* or Delete is inside the backend too or a reader is open
C23_Witness ==
    \E p, q \in Procs :
        /\ p # q /\ op[p].key # op[q].key
        /\ InsideW(q, op[q].key)
        /\ InsideW(p, op[p].key) \/ (InsideR(p, op[p].key) /\ op[p].pc = "reading")

\* an Upload or Delete of k holds the write lock or waits for it
WriterOn(k) ==
    \E q \in Procs : /\ op[q].kind \in {"Upload", "Delete"} /\ op[q].key = k
                     /\ op[q].pc \notin {"idle", "done"}

\* C24: reads of a key are shared: while no Upload or Delete of the key holds
\* or waits for the write lock a Download can take the read lock whatever the
\* number of readers, and the Downloads of the key that are open together
\* obtain the same content.
C24_ReadsShared ==
    /\ \A p \in Procs :
         (op[p].pc = "lock_r" /\ ~WriterOn(op[p].key)) =>
             CanRLock(rw[getLock(op[p].key)])
    /\ \A k \in Keys : \A p, q \in ReadersOf(k) :
         (op[p].eof /\ op[q].eof) => op[p].got = op[q].got

(***************************************************************************)
(* Statements about CacheClient.Delete (checked under Spec and SpecSeq)    *)
(***************************************************************************)
\* C25: a Delete whose cache.Delete failed still calls primary.Delete, and
\* what Delete returns is the outcome of primary.Delete: an error when it
\* failed, success when it succeeded, whatever the cache did.
C25_DeleteFollowsPrimary ==
    \A p \in Procs :
        op[p].kind = "Delete" =>
            /\ op[p].cerr => op[p].pc \in {"del_primary", "done"}
            /\ op[p].pc = "done" =>
                 op[p].res = (IF op[p].perr THEN "err" ELSE "ok")

\* a Delete has returned success after its cache.Delete failed: the cache
\* still has the key's file and the primary has no object
C25_Witness ==
    \E p \in Procs :
        /\ op[p].kind = "Delete" /\ op[p].pc = "done" /\ op[p].cerr
        /\ op[p].res = "ok" /\ primary[op[p].key] = NoObj
        /\ fsDir[op[p].key].dst # 0

\* p's Delete follows at once a successful Delete of the same key by p
SecondDelete(p) ==
    /\ op[p].kind = "Delete"
    /\ op[p].prev = [kind |-> "Delete", key |-> op[p].key, res |-> "ok"]

ThreeSixes ==
    /\ cfg.maxSizeBytes = 10
    /\ Len(hist.log) = 3
    /\ \A i \in 1..3 : hist.log[i].kind = "Add" /\ hist.log[i].size = 6
    /\ \A i, j \in 1..3 : hist.log[i].key = hist.log[j].key => i = j

\* C27 as stated: after the third Upload's Add currentSize is at most 10 and
\* exactly one of the first two keys has been evicted from the cache backend.
C27_OneOfFirstTwoEvicted ==
    ThreeSixes =>
        /\ lru.currentSize <= 10
        /\ Cardinality({hist.log[1].key, hist.log[2].key} \ hist.cached) = 1

\* C27, amended: the second Upload's Add evicts the first key and the third
\* Upload's Add evicts the second, so after the third Add currentSize is 6 and
\* both of the first two keys have been evicted from the cache backend; the
\* third key alone is cached and tracked.
C27_BothFirstTwoEvicted ==
    ThreeSixes =>
        /\ lru.currentSize = 6
        /\ hist.log[1].ret = <<>>
        /\ hist.log[2].ret = <<hist.log[1].key>>
        /\ hist.log[3].ret = <<hist.log[2].key>>
        /\ hist.cached = {hist.log[3].key}
        /\ lru.items = {hist.log[3].key}

\* the three Uploads of six bytes have been made
C27_Witness == ThreeSixes /\ lru.currentSize > 0

\* the call made in this step
IsCall(kind) == hist'.log # hist.log /\ hist'.log[Len(hist'.log)].kind = kind
TheCall == hist'.log[Len(hist'.log)]

\* C29: Add of an untracked key puts it at the most-recently-used end and
\* then removes entries from the least-recently-used end, only while
\* maxSizeBytes > 0, currentSize > maxSizeBytes and the list is not empty; it
\* returns the removed keys in the order of removal; Access moves a tracked
\* key to the most-recently-used end; with maxSizeBytes <= 0 nothing is evicted.
C29_AddEvictsFromTail ==
    [][/\ (IsCall("Add") /\ TheCall.key \notin lru.items) =>
            LET all == <<Entry(TheCall.key, TheCall.size)>> \o lru.order
                m == Len(all)
                n == Len(TheCall.ret)
                max == cfg.maxSizeBytes
            IN /\ n <= m
               /\ lru'.order = SubSeq(all, 1, m - n)
               /\ \A i \in 1..n : TheCall.ret[i] = all[m - i + 1].key
               /\ lru'.items = OrderKeys(lru'.order)
               /\ lru'.currentSize = SumSizes(lru'.order)
               /\ max <= 0 => n = 0
               /\ max > 0 => (lru'.currentSize <= max \/ lru'.order = <<>>)
               /\ \A j \in 1..n : SumSizes(SubSeq(all, 1, m - j + 1)) > max
       /\ (IsCall("Access") /\ TheCall.key \in lru.items) =>
            /\ Head(lru'.order).key = TheCall.key
            /\ LET NotK(e) == e.key # TheCall.key
               IN Tail(lru'.order) = SelectSeq(lru.order, NotK)
            /\ lru'.items = lru.items /\ lru'.currentSize = lru.currentSize
      ]_vars

\* one Add has evicted two keys, the older one first, after an Access had
\* changed the order
C29_Witness ==
    /\ hist.log # <<>>
    /\ hist.log[Len(hist.log)].kind = "Add"
    /\ Len(hist.log[Len(hist.log)].ret) >= 2
    /\ \E i \in 1..Len(hist.log) : hist.log[i].kind = "Access"

\* C30: Add of a key that is tracked leaves one entry for the key with the
\* size of its first insertion, leaves currentSize as it was, moves the key
\* to the most-recently-used end and returns no keys.
C30_AddTrackedKeepsSize ==
    [][(IsCall("Add") /\ TheCall.key \in lru.items) =>
         LET k == TheCall.key
             NotK(e) == e.key # k
         IN /\ TheCall.ret = <<>>
            /\ lru'.currentSize = lru.currentSize
            /\ lru'.items = lru.items
            /\ Head(lru'.order) = Entry(k, SizeOf(lru, k))
            /\ Tail(lru'.order) = SelectSeq(lru.order, NotK)
      ]_vars

\* the last call was an Add of a tracked key with another size than the
\* recorded one, and the key was not at the most-recently-used end before
C30_Witness ==
    /\ Len(hist.log) >= 3
    /\ LET c == hist.log[Len(hist.log)] IN
       /\ c.kind = "Add" /\ c.ret = <<>>
       /\ c.key \in lru.items /\ SizeOf(lru, c.key) # c.size
       /\ Len(lru.order) >= 2
       /\ hist.log[Len(hist.log) - 1].key # c.key

(***************************************************************************)
(* Statements about the termination of CacheClient.Upload (SpecLive)       *)
(***************************************************************************)
\* C28: an Upload returns: wherever the cache write fails (before it read
\* anything, in mid-stream or at its commit) the cache task drains the pipe to
\* its end, so the tee's writes on the primary side and the wait for the
\* cache task do not block for ever.
C28_UploadReturns ==
    (op[1].kind = "Upload" /\ op[1].pc # "done") ~> (op[1].pc = "done")

\* an Upload has returned success after its cache task failed before it read
\* anything and the whole content went through the pipe
C28_Witness ==
    /\ op[1].kind = "Upload" /\ op[1].pc = "done" /\ op[1].res = "ok"
    /\ ctask[1].err /\ ctask[1].size = 0
    /\ op[1].pbuf = op[1].src /\ Len(op[1].src) = MaxLen

\* ---------------------------------------------------------------------------
\* Claims about readers closed early, the local backend's Upload, lock order,
\* job termination and the LRU's bookkeeping
\* ---------------------------------------------------------------------------

\* C31: a cache-miss Download whose reader is closed before EOF does not
\* corrupt the cache: once the backfill has ended, the size the LRU tracks for
\* a key is the length of the cached file, and every Download read to EOF has
\* yielded the complete object that the primary stores.
C31_EarlyCloseKeepsCache ==
    /\ ctask[1].pc \in {"idle", "done"} =>
           \A k \in lru.items :
               fsDir[k].dst # 0 => SizeOf(lru, k) = Len(fsData[fsDir[k].dst])
    /\ (op[1].kind = "Download" /\ op[1].eof) =>
           op[1].got = StoredAtStart(op[1].key).data

\* the content that the caller p has streamed into its local.Upload
Streamed(p) == IF op[p].kind = "Upload" THEN op[p].src ELSE op[p].got

\* C32: for the local backend, every step leaves at the destination of each
\* key either nothing, the previous object unchanged, or (by the rename of an
\* Upload of that key) the complete content streamed into that Upload; and an
\* Upload that fails while streaming leaves the destination as it was and no
\* temp file.
C32_DestinationWhole ==
    [][/\ \A k \in Keys :
            \/ fsDir'[k].dst = 0
            \/ /\ fsDir'[k].dst = fsDir[k].dst
               /\ fsData'[fsDir'[k].dst] = fsData[fsDir[k].dst]
            \/ \E p \in Procs :
                 /\ ctask[p].pc = "rename" /\ ctask'[p].pc = "add"
                 /\ ctask[p].key = k
                 /\ fsData'[fsDir'[k].dst] = Streamed(p)
       /\ \A p \in Procs :
            (ctask[p].pc = "copy" /\ ctask'[p].err) =>
                /\ fsDir'[ctask[p].key].dst = fsDir[ctask[p].key].dst
                /\ fsDir'[ctask[p].key].tmp = 0]_vars

\* p has an operation or a cache-writing task in flight
Busy(p) == op[p].pc \notin {"idle", "done"} \/ ctask[p].pc \notin {"idle", "done"}

\* the keys whose lock p holds
HeldBy(p) == {k \in Keys : InsideW(p, k) \/ InsideR(p, k)}

\* a step of an operation in flight: of the client, of a task, or a lock taken
Work == \E p \in Procs : CacheWork(p) \/ DeleteWork(p) \/ LockStep(p)

\* C33: every key's lock is held by exactly the operations inside the wrapped
\* client on that key, so no caller holds the locks of two keys; the deletes
\* of evicted keys run after Add has returned; and whenever an operation or
\* a task is in flight some step of one of them can be taken (a reader that
\* is open can be closed): there is no deadlock.
C33_NoDeadlock ==
    /\ \A k \in Keys :
         /\ rw[getLock(k)].readers = Cardinality(ReadersOf(k))
         /\ rw[getLock(k)].writer <=> \E p \in Procs : InsideW(p, k)
    /\ \A p \in Procs :
         /\ Cardinality(HeldBy(p)) <= 1
         /\ ctask[p].pc = "evict" => ctask[p].added
    /\ (\E p \in Procs : Busy(p)) => ENABLED Work

\* a writer has announced itself and waits for an open reader of its key
C33_Witness ==
    \E p, q \in Procs :
        /\ op[p].pc = "lock_a" /\ rw[getLock(op[p].key)].readers > 0
        /\ op[q].pc = "reading" /\ op[q].key = op[p].key

\* C34: every job row that is created eventually has status completed or
\* error, also when the row is created before the checks and the check for
\* the template or for an existing version then fails.
C34_JobsEndTerminal ==
    \A j \in 1..MaxPushes :
        (Len(svc.jobs) >= j) ~>
            (Len(svc.jobs) >= j /\ svc.jobs[j].status \in {"completed", "error"})

\* the bytes of the objects that the cache backend holds under the keys 1..n
RECURSIVE ResidentBytes(_)
ResidentBytes(n) ==
    IF n = 0 THEN 0
    ELSE ResidentBytes(n - 1)
         + (IF fsDir[n].dst # 0 THEN Len(fsData[fsDir[n].dst]) ELSE 0)

\* C35: at every quiescent state (here: one reached without a failed call)
\* each key that the LRU tracks has a cache object whose length is the
\* tracked size, and currentSize is the number of bytes resident in the
\* cache; also after a tracked key was uploaded again with another length.
C35_TrackedSizeIsStoredSize ==
    (Quiescent /\ faults = 0) =>
        /\ \A k \in lru.items :
              fsDir[k].dst # 0 /\ SizeOf(lru, k) = Len(fsData[fsDir[k].dst])
        /\ lru.currentSize = ResidentBytes(NKeys)

\* C36: once the caller has closed the reader of a cache-miss Download, at
\* EOF or before it, the backfill task ends, whether its cache.Upload
\* succeeded or failed; and while the caller still reads, a task whose
\* cache.Upload has failed is draining the pipe, so that the caller's next
\* read goes through.
C36_BackfillEndsAfterClose ==
    /\ [](\A p \in Procs :
            (op[p].kind = "Download" /\ op[p].pc = "reading"
               /\ op[p].rsrc = "primary" /\ ctask[p].err) =>
                (ctask[p].pc = "drain" /\ PipeReady(p)
                   /\ ENABLED (ReadPrimary(p) \/ ReadPrimaryEOF(p)
                                \/ CloseReader(p))))
    /\ \A e \in BOOLEAN :
         (op[1].kind = "Download" /\ op[1].pc = "done" /\ op[1].rsrc = "primary"
            /\ ctask[1].pc \notin {"idle", "done"} /\ ctask[1].err = e)
           ~> (ctask[1].pc = "done")

\* the reader is closed before EOF while the task, whose cache.Upload has
\* failed, drains the pipe
C36_Witness ==
    /\ op[1].kind = "Download" /\ op[1].pc = "done" /\ op[1].rsrc = "primary"
    /\ ~op[1].eof /\ op[1].got # <<>>
    /\ ctask[1].pc = "drain" /\ ctask[1].err

\* C37: after any sequence of Add, Access and Remove calls, currentSize is
\* the sum of the sizes of the entries of the recency list, the map and the
\* list hold the same keys, each key once in the list, and currentSize is
\* not negative.
C37_LRUConsistent ==
    /\ lru.currentSize = SumSizes(lru.order)
    /\ lru.items = OrderKeys(lru.order)
    /\ Len(lru.order) = Cardinality(lru.items)
    /\ lru.currentSize >= 0

\* Add, Access and Remove have all been called, an Add has evicted, and a
\* key is tracked
C37_Witness ==
    /\ \A kind \in {"Add", "Access", "Remove"} :
          \E i \in 1..Len(hist.log) : hist.log[i].kind = kind
    /\ \E i \in 1..Len(hist.log) : hist.log[i].ret # <<>>
    /\ lru.order # <<>>

\* the keys that have an object in the cache backend
CachedKeys == {k \in Keys : fsDir[k].dst # 0}

\* C38: whenever no operation and no backfill task is in flight and no call
\* has failed, the keys that the LRU tracks are the keys that have an object
\* in the cache backend.
C38_TrackedIsCached == (Quiescent /\ faults = 0) => lru.items = CachedKeys

\* C39: once a Delete of k through SyncClient has returned success, with no
\* call having failed and no Upload of k after it, neither the cache backend
\* nor the LRU holds k and
\* no Download of k is served (a Download that holds the read lock of k
\* started after the Delete, which held the write lock until it returned).
C39_DeletedStaysGone ==
    \A p \in Procs :
        (op[p].kind = "Delete" /\ op[p].pc = "done" /\ op[p].res = "ok"
           /\ faults = 0) =>
            LET k == op[p].key IN
            /\ fsDir[k].dst = 0
            /\ k \notin lru.items
            /\ \A q \in Procs :
                 ~(op[q].kind = "Download" /\ op[q].key = k /\ op[q].pc = "reading")

\* C40: once the caller has closed the reader of a cache-miss Download, the
\* reader that primary.Download returned for that call is closed.
C40_PrimaryReaderClosed ==
    \A p \in Procs :
        (op[p].kind = "Download" /\ op[p].pc = "done" /\ op[p].closes >= 1) =>
            ~op[p].popen

====
